---- MODULE Spec2Model ----
(***************************************************************************)
(* collect_snyk_issues.py: per-organization vulnerable-line counter.       *)
(*                                                                         *)
(* The program is one sequential pipeline (main): validate arguments,      *)
(* resolve the organizations (group listing or single-org slug lookup),    *)
(* run process_org_issues for each, display, save.  The remote service is  *)
(* the environment: every response is chosen nondeterministically from     *)
(* bounded sets at the moment the request is made.                         *)
(*                                                                         *)
(* Two executions are carried side by side.  `run` is the execution with   *)
(* the --verbose/--debug flags chosen freely; `twin` is an execution with  *)
(* neither flag that is served the very same responses.  Both are records  *)
(* of the program's variables, stepped by the same operators.              *)
(***************************************************************************)
EXTENDS Integers, Sequences, FiniteSets, TLC

VARIABLES run, twin

vars == <<run, twin>>

\* ------------------------------------------------------------------ bounds
MaxPages  == 2   \* pages of one paginated listing
MaxOrgs   == 2   \* organization records a group listing returns in total
MaxIssues == 2   \* issue summaries a single-org run is served
MaxGroupIssues == 1   \* issue summaries a group run is served in total
MaxLine   == 2   \* line numbers range over 0..MaxLine

\* ------------------------------------------------------------ JSON values
None == "<None>"            \* Python None / absent key, for strings
Absent == <<>>              \* Python None / absent key, for numbers: <<>> or <<n>>
Some(n) == <<n>>

\* Python truthiness of an optional string / optional int (not x).
TruthyStr(x) == x # None /\ x # ""
TruthyInt(x) == x # Absent /\ x[1] # 0

RECURSIVE SeqsUpTo(_, _)
SeqsUpTo(S, n) ==
    IF n = 0 THEN {<<>>}
    ELSE LET shorter == SeqsUpTo(S, n - 1)
         IN  shorter \cup {Append(q, x) : q \in {p \in shorter : Len(p) = n - 1}, x \in S}

\* --------------------------------------------------------------------- URLs
\* A URL is a sequence of string pieces; concatenation is \o.  BASE is the
\* only piece that begins with "http".
BASE == "https://api.snyk.io"
base_url == <<BASE>>

StartsWith(u, piece) == Len(u) > 0 /\ u[1] = piece

RECURSIVE lstrip(_, _)
lstrip(u, piece) ==
    IF StartsWith(u, piece) THEN lstrip(Tail(u), piece) ELSE u

IssuesPath(org_id) == <<"rest/orgs/", org_id, "/issues">>
OrgsPath(group_id) == <<"rest/groups/", group_id, "/orgs">>

\* The service's side of pagination: the canonical URL of page k of a listing,
\* the page a requested URL denotes (0: no such resource), and the three shapes
\* in which links.next may name page k.
Cursor(k) == IF k = 1 THEN <<>> ELSE <<"?starting_after=", ToString(k)>>
PageUrl(path, k) == <<BASE, "/">> \o path \o Cursor(k)
PageOf(url, path) ==
    IF \E k \in 1..(MaxPages + 1) : url = PageUrl(path, k)
    THEN CHOOSE k \in 1..(MaxPages + 1) : url = PageUrl(path, k)
    ELSE 0
LinkForms == {"absolute", "root", "fragment"}
NextLink(form, path, k) ==
    CASE form = "absolute" -> PageUrl(path, k)
      [] form = "root"     -> <<"/">> \o path \o Cursor(k)
      [] form = "fragment" -> path \o Cursor(k)
      [] OTHER             -> <<>>

\* What the service answers to GET url: the page's status and data as the
\* environment chose them (c), links.next naming the following page.
Serve(url, path, c) ==
    LET page == PageOf(url, path)
    IN  IF page = 0
        THEN [page |-> 0, status |-> "notfound", data |-> <<>>, next |-> <<>>]
        ELSE [page |-> page, status |-> c.status, data |-> c.data,
              next |-> NextLink(c.next, path, page + 1)]

\* Variant: a bare fragment is appended to base_url without the "/".
ResolveNext_NoSlash(next_url) ==
    IF next_url # <<>>
    THEN IF StartsWith(next_url, BASE) THEN next_url
         ELSE base_url \o next_url
    ELSE <<>>

\* next_url handling shared by both fetchers (lines 91-99 / 119-127).
ResolveNext(next_url) ==
    IF next_url # <<>>
    THEN IF StartsWith(next_url, BASE) THEN next_url
         ELSE IF StartsWith(next_url, "/") THEN base_url \o next_url
         ELSE base_url \o <<"/">> \o lstrip(next_url, "/")
    ELSE <<>>

\* One iteration of the while loop of a paginated fetcher; `after` is the
\* position the caller continues at once the loop ends.
FetchIteration(s, resp, after) ==
    IF resp.status # "ok"
    THEN \* raise_for_status(): nothing catches it, the interpreter exits 1
         [s EXCEPT !.pc = "exited", !.exit_code = 1]
    ELSE LET next_url == ResolveNext(resp.next)
         IN  [s EXCEPT !.all_data = @ \o resp.data,
                       !.next_url = next_url,
                       !.next_params = FALSE,
                       !.pc = IF next_url # <<>> THEN @ ELSE after]

\* Variant: a failed page is swallowed and the pages read so far are returned.
get_issues_for_org_partial(s, resp) ==
    IF resp.status # "ok"
    THEN [s EXCEPT !.pc = "issues_fetched"]
    ELSE FetchIteration(s, resp, "issues_fetched")

get_issues_for_org(s, resp) == FetchIteration(s, resp, "issues_fetched")

get_all_orgs(s, resp) == FetchIteration(s, resp, "orgs_fetched")


\* ------------------------------------------------------- service payloads
\* Organization records of the group listing: id and attributes.slug, either
\* of which may be missing.
OrgRecords ==
    {[id |-> "o1", slug |-> None], [id |-> "o1", slug |-> "acme"],
     [id |-> "o2", slug |-> "acme"], [id |-> None, slug |-> "acme"]}

\* Issue summaries: relationships.scan_item.data.id and attributes.problems.
IssueSummaries ==
    {[scan_item_id |-> "proj", problems |-> <<[id |-> "prob"]>>],
     [scan_item_id |-> None,   problems |-> <<[id |-> "prob"]>>],
     [scan_item_id |-> "proj", problems |-> <<>>],
     [scan_item_id |-> "proj", problems |-> <<[id |-> None]>>]}

\* Issue-detail responses: the request fails, the body is JSON null, or the
\* body carries primaryRegion.startLine/endLine and severity, each optional.
OptLines == {Absent} \cup {Some(n) : n \in 0..MaxLine}
Severities == {None, "High", "medium", "LOW", "critical"}
NoDetail(kind) == [kind |-> kind, startLine |-> Absent, endLine |-> Absent, severity |-> None]
DetailResponses ==
    {NoDetail("fail"), NoDetail("null")}
    \cup [kind : {"ok"}, startLine : OptLines, endLine : OptLines, severity : Severities]

\* str.lower() on the severities above.
Lower(str) ==
    CASE str = "High" -> "high"
      [] str = "LOW"  -> "low"
      [] OTHER        -> str

\* ------------------------------------------------------------ SnykAPI calls
\* get_org_slug: the slug of the response, or org_id when the request fails
\* or the response carries no slug.
get_org_slug(org_id, outcome) ==
    IF outcome.ok /\ TruthyStr(outcome.slug) THEN outcome.slug ELSE org_id

\* get_issue_details: the parsed body (<<d>>), or None (<<>>) on a request
\* failure; a JSON null body parses to None as well.
get_issue_details(d) ==
    IF d.kind = "ok" THEN <<d>> ELSE <<>>

\* ------------------------------------------------------- process_org_issues
ZeroCounts == [high |-> 0, medium |-> 0, low |-> 0, total |-> 0]

\* Entry: the call of get_issues_for_org sets up the fetch loop's locals.
process_org_issues_call(s) ==
    LET org_id == s.orgs_to_process[s.i].id
    IN  [s EXCEPT !.next_url = base_url \o <<"/">> \o IssuesPath(org_id),
                  !.next_params = TRUE,
                  !.all_data = <<>>,
                  !.pc = "get_issues"]

\* After the fetch: debug dump (attempted; a failed write is caught and only
\* reported), verbose sample, zeroed counters.
process_org_issues_begin(s) ==
    LET issues == s.all_data
    IN  [s EXCEPT !.issues = issues,
                  !.all_data = <<>>,
                  !.next_url = <<>>,
                  !.debug_file = @ \/ s.debug,
                  !.diag = @ \/ s.debug \/ (s.verbose /\ issues # <<>>),
                  !.org_vulnerable_lines = ZeroCounts,
                  !.processed_count = 0,
                  !.skipped_count = 0,
                  !.vulnerable_lines = Absent,
                  !.pc = "issue_loop"]

\* Variant: the line that adds to 'total' is lost.
AddLines_NoTotal(counts, severity, vulnerable_lines) ==
    [counts EXCEPT ![severity] = @ + vulnerable_lines]

AddLines(counts, severity, vulnerable_lines) ==
    [counts EXCEPT ![severity] = @ + vulnerable_lines,
                   !.total = @ + vulnerable_lines]

\* Variant: a skipped issue ends the run instead of continuing the loop.
Skip_Abort(s, verbose) ==
    [s EXCEPT !.pc = "exited", !.exit_code = 1]

\* Variant: skipped_count += 1 / continue sit inside the "if verbose:" block,
\* so without --verbose the iteration falls through and dies on the missing value.
Skip_OnlyVerbose(s, verbose) ==
    IF verbose
    THEN [s EXCEPT !.skipped_count = @ + 1, !.diag = TRUE]
    ELSE [s EXCEPT !.pc = "exited", !.exit_code = 1]

Skip(s, verbose) ==
    [s EXCEPT !.skipped_count = @ + 1, !.diag = @ \/ verbose]

\* Variant: "or" for "and" in the identifier test.
MissingIds_Both(project_id, issue_id) == ~(TruthyStr(project_id) \/ TruthyStr(issue_id))

\* if not (project_id and issue_id)
MissingIds(project_id, issue_id) == ~(TruthyStr(project_id) /\ TruthyStr(issue_id))

\* if not (start_line and end_line)
MissingLineRange(start_line, end_line) == ~(TruthyInt(start_line) /\ TruthyInt(end_line))

\* Variant: the inclusive range counted as end - start.
LineCount_OffByOne(start_line, end_line) == end_line - start_line

\* vulnerable_lines = end_line - start_line + 1
LineCount(start_line, end_line) == end_line - start_line + 1

\* One iteration of the issue loop.
process_issue(s, d) ==
    LET issue == Head(s.issues)
        project_id == issue.scan_item_id
        problems == issue.problems
        issue_id == IF Len(problems) > 0 THEN problems[1].id ELSE None
        s0 == [s EXCEPT !.issues = Tail(@), !.diag = @ \/ s.debug]
    IN  IF MissingIds(project_id, issue_id)
        THEN Skip(s0, s.verbose)
        ELSE
        LET details == get_issue_details(d)
            s1 == [s0 EXCEPT !.detail_reqs = @ + 1]
        IN  IF details = <<>>
            THEN Skip(s1, s.verbose)
            ELSE
            LET start_line == details[1].startLine
                end_line == details[1].endLine
                severity == Lower(IF details[1].severity = None
                                  THEN "unknown" ELSE details[1].severity)
            IN  IF MissingLineRange(start_line, end_line)
                THEN Skip(s1, s.verbose)
                ELSE
                LET vulnerable_lines == LineCount(start_line[1], end_line[1])
                    s2 == [s1 EXCEPT !.vulnerable_lines = Some(vulnerable_lines)]
                IN  IF severity \in {"high", "medium", "low"}
                    THEN [s2 EXCEPT
                            !.org_vulnerable_lines = AddLines(@, severity, vulnerable_lines),
                            !.processed_count = @ + 1,
                            !.diag = @ \/ (s.verbose /\ s.processed_count + 1 <= 3)]
                    ELSE Skip(s2, s.verbose)

\* ------------------------------------------------------------------- main
\* Variant: the key is the slug alone.
OrgKey_SlugOnly(org_slug, org_id) == <<org_slug>>

\* The Report key of an organization: f"{org_slug} ({org_id})".
OrgKey(org_slug, org_id) == <<org_slug, " (", org_id, ")">>

NotExited == 0 - 1

Exit(s, code) == [s EXCEPT !.pc = "exited", !.exit_code = code]

\* Argument and credential validation, then the first call of the chosen mode.
main_start(s) ==
    IF s.group_id = None /\ s.args_org_id = None THEN Exit(s, 1)
    ELSE IF s.group_id # None /\ s.args_org_id # None THEN Exit(s, 1)
    ELSE IF ~s.snyk_token THEN Exit(s, 1)
    ELSE IF s.group_id # None
    THEN [s EXCEPT !.next_url = base_url \o <<"/">> \o OrgsPath(s.group_id),
                   !.next_params = TRUE,
                   !.all_data = <<>>,
                   !.pc = "get_all_orgs"]
    ELSE [s EXCEPT !.pc = "get_org_slug"]

\* Variant: the "no organizations found" check is missing.
main_orgs_resolved_NoCheck(s, orgs_to_process) ==
    [s EXCEPT !.orgs_to_process = orgs_to_process,
              !.all_org_summaries = <<>>,
              !.i = 1,
              !.pc = "next_org"]

\* After the organizations are resolved: nothing to process is fatal.
main_orgs_resolved(s, orgs_to_process) ==
    IF orgs_to_process = <<>>
    THEN Exit(s, 1)
    ELSE [s EXCEPT !.orgs_to_process = orgs_to_process,
                   !.all_org_summaries = <<>>,
                   !.i = 1,
                   !.pc = "next_org"]

\* Group mode: keep the records that have an id, slug falling back to the id.
RECURSIVE CollectOrgs(_)
CollectOrgs(all_orgs) ==
    IF all_orgs = <<>> THEN <<>>
    ELSE LET org == Head(all_orgs)
             org_id == org.id
             org_slug == IF org.slug = None THEN org_id ELSE org.slug
         IN  (IF TruthyStr(org_id) THEN <<[id |-> org_id, slug |-> org_slug]>> ELSE <<>>)
             \o CollectOrgs(Tail(all_orgs))

main_group(s) ==
    main_orgs_resolved([s EXCEPT !.diag = @ \/ (s.verbose /\ CollectOrgs(s.all_data) # <<>>),
                                 !.all_data = <<>>],
                       CollectOrgs(s.all_data))

\* Single-org mode.
main_single_org(s, outcome) ==
    main_orgs_resolved(s, <<[id |-> s.args_org_id,
                            slug |-> get_org_slug(s.args_org_id, outcome)]>>)

\* Head of the organization loop.
main_next_org(s) ==
    IF s.i <= Len(s.orgs_to_process)
    THEN process_org_issues_call(s)
    ELSE [s EXCEPT !.pc = "display"]

\* process_org_issues returns (its locals are gone); its result is stored
\* under the organization key.
main_store(s) ==
    LET org == s.orgs_to_process[s.i]
        org_key == OrgKey(org.slug, org.id)
        old == s.all_org_summaries
    IN  [s EXCEPT !.all_org_summaries =
                      [k \in DOMAIN old \cup {org_key} |->
                          IF k = org_key THEN s.org_vulnerable_lines ELSE old[k]],
                  !.org_vulnerable_lines = ZeroCounts,
                  !.processed_count = 0,
                  !.skipped_count = 0,
                  !.vulnerable_lines = Absent,
                  !.i = @ + 1,
                  !.pc = "next_org"]

display_org_summary(s) ==
    [s EXCEPT !.displayed = TRUE, !.pc = "save"]

\* save_org_summary_to_file: a failed write exits 1.
save_org_summary_to_file(s, file_ok) ==
    IF file_ok
    THEN Exit([s EXCEPT !.written = <<s.all_org_summaries>>], 0)
    ELSE Exit(s, 1)


\* ------------------------------------------------------------ the two runs
\* Program variables of one execution, followed by what an observer of that
\* execution records: the requests of the fetch in progress (reqs), the data
\* the service handed out in it (served), the detail requests of the
\* organization in progress (detail_reqs), whether a listing request failed,
\* the issue summaries served so far, and two fields computed from the
\* responses alone: how the specification classifies the issue just handled
\* (last), and whether some detail so far had endLine < startLine (inverted).
NoIssue == [failure |-> FALSE, agrees |-> TRUE]
InitRun(group_id, org_id, snyk_token, verbose, debug) ==
    [group_id |-> group_id, args_org_id |-> org_id, snyk_token |-> snyk_token,
     verbose |-> verbose, debug |-> debug,
     pc |-> "main", exit_code |-> NotExited,
     next_url |-> <<>>, next_params |-> FALSE, all_data |-> <<>>,
     orgs_to_process |-> <<>>, i |-> 0, all_org_summaries |-> <<>>,
     issues |-> <<>>, org_vulnerable_lines |-> ZeroCounts,
     processed_count |-> 0, skipped_count |-> 0, vulnerable_lines |-> Absent,
     displayed |-> FALSE, written |-> <<>>, debug_file |-> FALSE, diag |-> FALSE,
     reqs |-> <<>>, served |-> <<>>, detail_reqs |-> 0, failed_listing |-> FALSE,
     issues_served |-> 0,
     last |-> NoIssue, inverted |-> FALSE]

Init ==
    \E g \in {None, "g1"}, o \in {None, "o1"}, tok, v, d \in BOOLEAN :
        /\ v \/ d
        /\ run = InitRun(g, o, tok, v, d)
        /\ twin = InitRun(g, o, tok, FALSE, FALSE)

\* The twin takes the same step on the same input while it is at the same
\* position as the run.
Both(Step(_)) ==
    /\ run' = Step(run)
    /\ twin' = IF twin.pc = run.pc THEN Step(twin) ELSE twin

\* ----------------------------------------------------------- observations
NewFetch(t) == [t EXCEPT !.reqs = <<>>, !.served = <<>>]

FetchObserved(s, t, resp, c) ==
    [t EXCEPT !.reqs = Append(s.reqs, [page |-> resp.page, params |-> s.next_params,
                                       ok |-> resp.status = "ok",
                                       next |-> IF resp.status = "ok" THEN c.next ELSE "none"]),
              !.served = IF resp.status = "ok" THEN s.served \o resp.data ELSE s.served,
              !.failed_listing = s.failed_listing \/ resp.status # "ok"]

\* What the environment may put on the next page of the fetch in progress.
PageContents(Items, room) ==
    {[status |-> "error", data |-> <<>>, next |-> "none"]}
    \cup [status : {"ok"},
          data : SeqsUpTo(Items, room),
          next : IF Len(run.reqs) + 1 < MaxPages THEN LinkForms \cup {"none"} ELSE {"none"}]

\* The issue's identifiers as the specification names them.
HasIds(issue) ==
    /\ issue.scan_item_id # None
    /\ issue.problems # <<>>
    /\ issue.problems[1].id # None

Buckets == {"high", "medium", "low"}

SeverityOf(d) == Lower(IF d.severity = None THEN "unknown" ELSE d.severity)

\* The issue is bucketable in the specification's terms: both line bounds are
\* present and the lowercased severity is a bucket.
Bucketable(issue, d) ==
    /\ HasIds(issue)
    /\ d.kind = "ok"
    /\ d.startLine # Absent /\ d.endLine # Absent
    /\ SeverityOf(d) \in Buckets

\* A per-issue failure in the specification's terms.
PerIssueFailure(issue, d) ==
    \/ ~HasIds(issue)
    \/ d.kind # "ok"
    \/ d.startLine = Absent \/ d.endLine = Absent
    \/ SeverityOf(d) \notin Buckets

Inverted(issue, d) ==
    /\ HasIds(issue) /\ d.kind = "ok"
    /\ d.startLine # Absent /\ d.endLine # Absent
    /\ d.endLine[1] < d.startLine[1]

\* The counts after an issue as the specification has them: endLine -
\* startLine + 1 added to the severity's bucket and to total when the issue is
\* bucketable, nothing otherwise.
Claimed(counts, issue, d) ==
    IF Bucketable(issue, d)
    THEN LET lines == d.endLine[1] - d.startLine[1] + 1
         IN  [counts EXCEPT ![SeverityOf(d)] = @ + lines, !.total = @ + lines]
    ELSE counts

IssueObserved(s, t, d) ==
    LET issue == Head(s.issues)
    IN  [t EXCEPT !.last = [failure |-> PerIssueFailure(issue, d),
                            agrees |-> t.org_vulnerable_lines
                                         = Claimed(s.org_vulnerable_lines, issue, d)],
                  !.inverted = @ \/ Inverted(issue, d)]

\* ------------------------------------------------------------------ actions
StartStep(s) == NewFetch(main_start(s))
Start ==
    /\ run.pc = "main"
    /\ Both(StartStep)

GetAllOrgsStep(s, c) ==
    LET resp == Serve(s.next_url, OrgsPath(s.group_id), c)
    IN  FetchObserved(s, get_all_orgs(s, resp), resp, c)
GetAllOrgs ==
    /\ run.pc = "get_all_orgs"
    /\ \E c \in PageContents(OrgRecords, MaxOrgs - Len(run.served)) :
         LET Step(s) == GetAllOrgsStep(s, c) IN Both(Step)

GroupOrgs ==
    /\ run.pc = "orgs_fetched"
    /\ Both(main_group)

SlugOutcomes == [ok : BOOLEAN, slug : {None, "acme"}]
SingleOrg ==
    /\ run.pc = "get_org_slug"
    /\ \E outcome \in SlugOutcomes :
         LET Step(s) == main_single_org(s, outcome) IN Both(Step)

NextOrgStep(s) == NewFetch(main_next_org(s))
NextOrg ==
    /\ run.pc = "next_org"
    /\ Both(NextOrgStep)

IssueBudget(s) == IF s.group_id # None THEN MaxGroupIssues ELSE MaxIssues
GetIssuesStep(s, c) ==
    LET resp == Serve(s.next_url, IssuesPath(s.orgs_to_process[s.i].id), c)
        t == FetchObserved(s, get_issues_for_org(s, resp), resp, c)
    IN  [t EXCEPT !.issues_served = @ + Len(resp.data)]
GetIssues ==
    /\ run.pc = "get_issues"
    /\ \E c \in PageContents(IssueSummaries, IssueBudget(run) - run.issues_served) :
         LET Step(s) == GetIssuesStep(s, c) IN Both(Step)

BeginOrgStep(s) ==
    [NewFetch(process_org_issues_begin(s)) EXCEPT !.detail_reqs = 0, !.last = NoIssue]
BeginOrg ==
    /\ run.pc = "issues_fetched"
    /\ Both(BeginOrgStep)

\* What the detail endpoint may answer for an issue: without both identifiers
\* there is no such resource.
DetailsFor(issue) == IF HasIds(issue) THEN DetailResponses ELSE {NoDetail("fail")}
ProcessIssueStep(s, d) == IssueObserved(s, process_issue(s, d), d)
ProcessIssue ==
    /\ run.pc = "issue_loop"
    /\ run.issues # <<>>
    /\ \E d \in DetailsFor(Head(run.issues)) :
         LET Step(s) == ProcessIssueStep(s, d) IN Both(Step)

StoreOrgStep(s) == [main_store(s) EXCEPT !.detail_reqs = 0, !.last = NoIssue]
StoreOrg ==
    /\ run.pc = "issue_loop"
    /\ run.issues = <<>>
    /\ Both(StoreOrgStep)

Display ==
    /\ run.pc = "display"
    /\ Both(display_org_summary)

Save ==
    /\ run.pc = "save"
    /\ \E file_ok \in BOOLEAN :
         LET Step(s) == save_org_summary_to_file(s, file_ok) IN Both(Step)

Next ==
    \/ Start
    \/ GetAllOrgs
    \/ GroupOrgs
    \/ SingleOrg
    \/ NextOrg
    \/ GetIssues
    \/ BeginOrg
    \/ ProcessIssue
    \/ StoreOrg
    \/ Display
    \/ Save

Spec == Init /\ [][Next]_vars


\* ================================================================== claims
Runs == {run, twin}

InIssueStep(s, t) == s.pc = "issue_loop" /\ s.issues # <<>> /\ t # s

Report(s) == s.all_org_summaries

\* ---------------------------------------------------------------------- C1
\* C1: every issue whose detail has startLine and endLine present and a
\* severity that lowercases to high/medium/low adds endLine - startLine + 1 to
\* that one bucket and to total, once, and nothing else changes the counts:
\* after each issue the counts are the counts before it plus what the
\* specification says the issue contributes.
C1_BucketedOnce ==
    \A s \in Runs : s.last.agrees

\* ---------------------------------------------------------------------- C2
TotalIsSum(counts) == counts.total = counts.high + counts.medium + counts.low

\* C2: total = high + medium + low in the counts of the organization being
\* processed, in every entry of the Report, and in the Report written to disk.
C2_TotalIsSum ==
    \A s \in Runs :
        /\ TotalIsSum(s.org_vulnerable_lines)
        /\ \A k \in DOMAIN Report(s) : TotalIsSum(Report(s)[k])
        /\ s.written # <<>> =>
              \A k \in DOMAIN s.written[1] : TotalIsSum(s.written[1][k])

\* A written Report entry built from one skipped-free pair of bucketed issues
\* of different severities.
C2_Witness ==
    /\ run.written # <<>>
    /\ \E k \in DOMAIN run.written[1] :
          LET c == run.written[1][k]
          IN  Cardinality({b \in Buckets : c[b] > 0}) = 2 /\ c.total > 1

\* ---------------------------------------------------------------------- C4
C4Step(s, t) ==
    InIssueStep(s, t) =>
        IF HasIds(Head(s.issues))
        THEN t.detail_reqs = s.detail_reqs + 1
        ELSE /\ t.detail_reqs = s.detail_reqs
             /\ t.org_vulnerable_lines = s.org_vulnerable_lines

\* C4: an issue summary missing relationships.scan_item.data.id or
\* attributes.problems[0].id causes no detail request and changes no bucket;
\* an issue with both identifiers causes exactly one detail request.
C4_NoDetailWithoutIds ==
    [][C4Step(run, run') /\ C4Step(twin, twin')]_vars

\* Two issues handled, one bucketed after its one detail request, the other
\* skipped without any request.
C4_Witness ==
    /\ run.pc = "issue_loop"
    /\ run.processed_count = 1 /\ run.skipped_count = 1
    /\ run.detail_reqs = 1

\* ---------------------------------------------------------------------- C5
C5Step(s, t) ==
    /\ (InIssueStep(s, t) /\ t.last.failure) =>
          /\ t.org_vulnerable_lines = s.org_vulnerable_lines
          /\ t.pc = "issue_loop"
          /\ t.issues = Tail(s.issues)
          /\ t.exit_code = NotExited
    /\ (s.pc = "issue_loop" /\ t # s /\ s.issues = <<>>) =>
          /\ t.pc = "next_org"
          /\ OrgKey(s.orgs_to_process[s.i].slug, s.orgs_to_process[s.i].id) \in DOMAIN Report(t)

NonNegative(counts) ==
    counts.high >= 0 /\ counts.medium >= 0 /\ counts.low >= 0 /\ counts.total >= 0

NoDecrease(before, after) ==
    /\ after.high >= before.high /\ after.medium >= before.medium
    /\ after.low >= before.low /\ after.total >= before.total

C10Step(s, t) ==
    /\ t.vulnerable_lines # Absent => t.vulnerable_lines[1] >= 1
    /\ InIssueStep(s, t) => NoDecrease(s.org_vulnerable_lines, t.org_vulnerable_lines)
    /\ NonNegative(t.org_vulnerable_lines)
    /\ \A k \in DOMAIN Report(t) : NonNegative(Report(t)[k])

\* C10 as stated: whenever both line bounds are present the computed
\* vulnerable_lines is at least 1, so no bucket and no total ever decreases
\* while an organization's issues are processed, and all are non-negative.
C10_LinesAtLeastOne ==
    [][C10Step(run, run') /\ C10Step(twin, twin')]_vars

\* C10 as amended: the same, in a run in which no detail with both line bounds
\* present has endLine < startLine.
C10_LinesAtLeastOneWhenOrdered ==
    [][(~run'.inverted => C10Step(run, run')) /\ (~twin'.inverted => C10Step(twin, twin'))]_vars

\* Two issues bucketed from well-ordered line ranges.
C10_Witness ==
    /\ run.pc = "issue_loop"
    /\ ~run.inverted
    /\ run.processed_count = 2
    /\ run.vulnerable_lines # Absent
    /\ run.org_vulnerable_lines.total >= 2


\* ---------------------------------------------------------------------- C3
Fetching(s) == s.pc \in {"get_all_orgs", "get_issues"}
Fetched(s) == s.pc \in {"orgs_fetched", "issues_fetched"}

\* C3: a paginated fetcher requests the pages of the chain one after the
\* other, each once (request k is for page k), sends the query parameters with
\* the first request only, goes on exactly while the page just read carries
\* links.next (in any of the three shapes), and returns the concatenation of
\* the pages' data in page order.
C3_Pagination ==
    \A s \in Runs :
        LET n == Len(s.reqs)
        IN  /\ \A k \in 1..n :
                  /\ s.reqs[k].page = k
                  /\ s.reqs[k].params = (k = 1)
                  /\ k < n => (s.reqs[k].ok /\ s.reqs[k].next # "none")
            /\ Fetching(s) =>
                  /\ s.all_data = s.served
                  /\ n > 0 => (s.reqs[n].ok /\ s.reqs[n].next # "none")
            /\ Fetched(s) =>
                  /\ s.all_data = s.served
                  /\ n > 0 /\ s.reqs[n].ok /\ s.reqs[n].next = "none"

\* An issue listing of two pages, the second named by a bare fragment, with
\* different items on the two pages.
C3_Witness ==
    /\ run.pc = "issues_fetched"
    /\ Len(run.reqs) = 2
    /\ run.reqs[1].next = "fragment"
    /\ Len(run.all_data) = 2
    /\ run.all_data[1] # run.all_data[2]

\* ---------------------------------------------------------------------- C6
\* C6: once a page of a listing answers with a non-success status the run is
\* over with exit status 1: the failed request is the last one, nothing is
\* displayed and no Report is written, whatever was aggregated before.
C6_ListingFailureIsFatal ==
    \A s \in Runs :
        s.failed_listing =>
            /\ s.pc = "exited" /\ s.exit_code = 1
            /\ ~s.displayed /\ s.written = <<>>
            /\ s.reqs # <<>> /\ ~s.reqs[Len(s.reqs)].ok
            /\ \A k \in 1..(Len(s.reqs) - 1) : s.reqs[k].ok

\* The second page of an organization's issue listing fails after the first
\* page delivered data and after an earlier organization was aggregated.
C6_Witness ==
    /\ run.failed_listing
    /\ DOMAIN Report(run) # {}
    /\ Len(run.reqs) = 2
    /\ run.served # <<>>

\* ---------------------------------------------------------------------- C7
GroupListed(s) ==
    /\ s.group_id # None /\ s.args_org_id = None /\ s.snyk_token
    /\ s.pc \notin {"main", "get_all_orgs", "orgs_fetched"}
    /\ ~s.failed_listing

\* C7: in group mode, when the listing leaves no organization to process, the
\* run ends with exit status 1; no organization is aggregated, no summary is
\* displayed, no Report is written.
C7_NoOrgsIsFatal ==
    \A s \in Runs :
        (GroupListed(s) /\ s.orgs_to_process = <<>>) =>
            /\ s.pc = "exited" /\ s.exit_code = 1
            /\ Report(s) = <<>>
            /\ s.issues_served = 0 /\ s.detail_reqs = 0
            /\ ~s.displayed /\ s.written = <<>>

\* The group listing returned records, none of them with an id.
C7_Witness ==
    /\ GroupListed(run)
    /\ run.orgs_to_process = <<>>
    /\ run.served # <<>>
    /\ run.pc = "exited"

\* ---------------------------------------------------------------------- C8
AfterLoop(s) == s.pc \in {"display", "save"} \/ (s.pc = "exited" /\ s.displayed)

Processed(s) == {s.orgs_to_process[k] : k \in 1..Len(s.orgs_to_process)}

Outcome(s) ==
    [pc |-> s.pc, exit_code |-> s.exit_code, displayed |-> s.displayed,
     report |-> Report(s), written |-> s.written]

\* C9: the execution with --verbose and/or --debug and the execution with
\* neither, served the same responses, are at every step at the same position
\* with the same Report, and end with the same exit status and written Report.
C9_FlagsHaveNoEffect ==
    Outcome(run) = Outcome(twin)

\* A finished run with both flags that printed diagnostics and dumped the
\* debug file, skipped one issue and bucketed another.
C9_Witness ==
    /\ run.verbose /\ run.debug /\ run.diag /\ run.debug_file
    /\ ~twin.diag /\ ~twin.debug_file
    /\ run.exit_code = 0
    /\ run.written # <<>>
    /\ run.issues_served = 2
    /\ \E k \in DOMAIN run.written[1] :
          run.written[1][k].total > 0 /\ run.written[1][k].total = run.written[1][k].low

====
